---- MODULE Spec2Model ----
(***************************************************************************)
(* The frame-relay daemon of src/frame_grabber.py as a state machine.      *)
(*                                                                         *)
(* The daemon is one sequential control flow (main and the functions it    *)
(* calls); pc is its position.  signal_handler runs asynchronously and     *)
(* only clears running.  The environment (the camera, the Swift client,    *)
(* the clock) acts through the actions at the end.                         *)
(*                                                                         *)
(* Time.  Timestamps are kept relative to a window of MaxTime ticks that   *)
(* ends at the present: time.time() is Now, and the passing of d ticks     *)
(* moves every stored timestamp d ticks into the past, stopping at 0,      *)
(* which therefore reads "at least MaxTime ticks ago".  The epoch value 0  *)
(* that capture_and_send_loop stores in last_capture_time is such a time.  *)
(* MaxTime is at least the longest pacing interval, TicksPerSec ticks.     *)
(* The clock never runs backwards.                                         *)
(***************************************************************************)
EXTENDS Integers, Sequences, FiniteSets, TLC

\* ------------------------------------------------------------- bounds
TicksPerSec == 2      \* clock resolution: ticks in one second
MaxTime     == 4      \* length of the timestamp window, in ticks
MaxFrames   == 2      \* frames handed to send_frame_data in one run
MaxPayload  == 2      \* longest encoded frame, in bytes

\* --------------------------------------------------- program constants
max_retries             == 3     \* frame_grabber.py:131
max_connection_failures == 5     \* frame_grabber.py:187
RetryDelay              == 3     \* time.sleep(3),  frame_grabber.py:157
ConnectFailDelay        == 10    \* time.sleep(10), frame_grabber.py:195
RecreateDelay           == 5     \* time.sleep(5),  frame_grabber.py:209
ErrorDelay              == 1     \* time.sleep(1),  frame_grabber.py:212, 245
Backlog                 == 1     \* listen(1),      frame_grabber.py:94

\* FRAME_RATE = int(os.getenv("FRAME_RATE", 1)): an integer the operator
\* writes; validate_configuration only warns about an unusual one.
Rates == {0, 1, 2}

PayloadLens == 1..MaxPayload

VARIABLES
    pc,                  \* position of the daemon's control flow
    running,             \* global running
    server_socket,       \* global: "None", "created" (socket()), "listening"
    client_connection,   \* global: "None" or "conn"
    capture,             \* global: "None" or "cap"
    cfgOK,               \* all([RTSP_URL, CAM_USERNAME, CAM_PASSWORD])
    FRAME_RATE,          \* global FRAME_RATE
    attempt,             \* create_rtsp_connection: loop variable; it keeps
                         \* its last value after a call returned None
    connection_failures, \* capture_and_send_loop: local
    last_capture_time,   \* capture_and_send_loop: local
    frame,               \* capture_and_send_loop: "none", "ok", "corrupt"
    jpeg_len,            \* len(jpeg_data) of the frame being sent
    ret,                 \* the value main returns; -1 while it runs
    sockFile,            \* SOCKET_PATH: "absent", "stale", "bound"
    leaked,              \* a source handle was dropped without release()
    src,                 \* the camera: "down", "bad", "up"
    pending,             \* clients waiting to be accepted
    peerAlive,           \* the accepted client still reads its socket
    wire,                \* history: bytes written to the client session
    sentLens,            \* history: len(frame_data) of each send_frame_data
    acceptLog,           \* history: times of the frames that passed pacing
    failRun,             \* history: reads in a row that returned no frame
    releaseLog,          \* history: resources released, in order
    cause,               \* history: why control left the server loop
    lateTimeouts,        \* history: accept timeouts after running was cleared
    unsent,              \* history: the frame last read was not sent yet
    hdrQ, hdrR,          \* header check: a length L = 256 * hdrQ + hdrR
    hdrBytes             \* header check: the packed header

progVars == <<pc, running, server_socket, client_connection, capture, cfgOK,
              FRAME_RATE, attempt, connection_failures, last_capture_time,
              frame, jpeg_len, ret, sockFile, leaked>>
envVars  == <<src, pending, peerAlive>>
obsVars  == <<lateTimeouts, unsent>>
histVars == <<wire, sentLens, acceptLog, failRun, releaseLog, cause, obsVars>>
hdrVars  == <<hdrQ, hdrR, hdrBytes>>
vars     == <<progVars, envVars, histVars, hdrVars>>

\* ------------------------------------------------------------ helpers
Now == MaxTime

\* A timestamp t after d more ticks have passed.
Aged(t, d) == IF t > d THEN t - d ELSE 0

\* The accept times still inside the window after d more ticks.
AgedLog(log, d) ==
    LET shifted == [i \in 1..Len(log) |-> Aged(log[i], d)]
    IN  SelectSeq(shifted, LAMBDA t : t > 0)

\* Mutant: capture_interval = 1 // FRAME_RATE, the integer quotient.
TooSoonIntDiv(elapsed, rate) == elapsed < (1 \div rate) * TicksPerSec

\* capture_interval = 1.0 / FRAME_RATE; the frame is dropped when
\* (current_time - last_capture_time) < capture_interval.  elapsed is in
\* ticks, so elapsed / TicksPerSec < 1 / rate, cleared of the division.
TooSoon(elapsed, rate) ==
    IF rate > 0 THEN elapsed * rate < TicksPerSec
                ELSE elapsed * rate > TicksPerSec

\* Mutant: '>I', network byte order.
PackBE32(q, r) ==
    <<(q \div 65536) % 256, (q \div 256) % 256, q % 256, r>>

\* struct.pack('<I', L) for L = 256 * q + r, 0 <= r < 256: byte i holds
\* (L >> 8i) & 0xFF, least significant byte first.  L is carried as the pair
\* (q, r) so that every L up to 2^32 - 1 stays inside the checker's integers.
PackLE32(q, r) ==
    <<r, q % 256, (q \div 256) % 256, (q \div 65536) % 256>>

\* The payload of a frame of n bytes.  The JPEG data is opaque to the relay;
\* 256 stands for "a payload byte", distinct from every header byte.
Payload(n) == [i \in 1..n |-> 256]

Front(s) == SubSeq(s, 1, Len(s) - 1)

\* ---------------------------------------------------------------- Init
DaemonInit ==
    /\ pc = "main"
    /\ running = TRUE
    /\ server_socket = "None"
    /\ client_connection = "None"
    /\ capture = "None"
    /\ cfgOK \in BOOLEAN
    /\ FRAME_RATE \in Rates
    /\ attempt = 0
    /\ connection_failures = 0
    /\ last_capture_time = 0
    /\ frame = "none"
    /\ jpeg_len = 0
    /\ ret = -1
    /\ sockFile \in {"absent", "stale"}
    /\ leaked = FALSE
    /\ src \in {"down", "bad", "up"}
    /\ pending = 0
    /\ peerAlive = FALSE
    /\ wire = <<>>
    /\ sentLens = <<>>
    /\ acceptLog = <<>>
    /\ failRun = 0
    /\ releaseLog = <<>>
    /\ cause = "none"
    /\ lateTimeouts = 0
    /\ unsent = FALSE

Init ==
    /\ DaemonInit
    /\ hdrQ = 0 /\ hdrR = 0 /\ hdrBytes = <<>>

\* main returns code: the finally clause runs cleanup next.
Return(code, why) ==
    /\ ret' = code
    /\ cause' = why
    /\ pc' = "finally"

\* ------------------------------------------------------------- main
\* main, lines 262-265: validate_configuration.
validate_configuration ==
    /\ pc = "main"
    /\ IF cfgOK
       THEN pc' = "create_server_socket" /\ UNCHANGED <<ret, cause>>
       ELSE Return(1, "config")
    /\ UNCHANGED <<running, server_socket, client_connection, capture, cfgOK,
                   FRAME_RATE, attempt, connection_failures,
                   last_capture_time, frame, jpeg_len, sockFile, leaked>>
    /\ UNCHANGED <<envVars, wire, sentLens, acceptLog, failRun, releaseLog,
                   hdrVars, obsVars>>

\* Mutant: a stale file that cannot be removed is ignored.
ServerSocketOKDespiteUnlink(how) == how \in {"ok", "unlink"}

\* create_server_socket returns True, line 96, when no call raised.
ServerSocketOK(how) == how = "ok"

\* create_server_socket and main's test of its result, lines 267-269.
\* how names the first call that raises: os.unlink of an existing file,
\* socket.socket, bind, or listen; "ok" when none does.
create_server_socket ==
    /\ pc = "create_server_socket"
    /\ \E how \in {"unlink", "socket", "bind", "listen", "ok"} :
        /\ how = "unlink" => sockFile # "absent"
        /\ server_socket' = CASE how \in {"unlink", "socket"} -> "None"
                              [] how \in {"bind", "listen"}   -> "created"
                              [] OTHER                        -> "listening"
        /\ sockFile' = CASE how = "unlink"             -> sockFile
                         [] how \in {"socket", "bind"} -> "absent"
                         [] OTHER                      -> "bound"
        /\ IF ServerSocketOK(how)
           THEN pc' = "main_loop" /\ UNCHANGED <<ret, cause>>
           ELSE Return(1, "bind")
    /\ UNCHANGED <<running, client_connection, capture, cfgOK, FRAME_RATE,
                   attempt, connection_failures, last_capture_time, frame,
                   jpeg_len, leaked>>
    /\ UNCHANGED <<envVars, wire, sentLens, acceptLog, failRun, releaseLog,
                   hdrVars, obsVars>>

\* main, line 272: while running; line 291 when it is False.
main_loop ==
    /\ pc = "main_loop"
    /\ IF running
       THEN pc' = "wait_for_client" /\ UNCHANGED <<ret, cause>>
       ELSE Return(0, "shutdown_main")
    /\ UNCHANGED <<running, server_socket, client_connection, capture, cfgOK,
                   FRAME_RATE, attempt, connection_failures,
                   last_capture_time, frame, jpeg_len, sockFile, leaked>>
    /\ UNCHANGED <<envVars, wire, sentLens, acceptLog, failRun, releaseLog,
                   hdrVars, obsVars>>

\* d seconds pass (time.sleep(d), or a blocking call taking that long).
Pass(d) ==
    /\ last_capture_time' = Aged(last_capture_time, d * TicksPerSec)
    /\ acceptLog' = AgedLog(acceptLog, d * TicksPerSec)

\* The release log with one more release: a run of releases of the same
\* kind of resource is one entry.
Logged(log, what) ==
    IF log # <<>> /\ log[Len(log)] = what THEN log ELSE Append(log, what)

\* Mutant: line 110 as "while True".
WaitGoesOnAlways(run) == TRUE

\* Line 110: the accept wait goes on while running.
WaitGoesOn(run) == run

\* wait_for_client, line 110, and main's test of its result, 274-275.
\* Falling out of "while running" returns None, which main reads as failure:
\* break, and return 0.
wait_for_client ==
    /\ pc = "wait_for_client"
    /\ IF WaitGoesOn(running)
       THEN pc' = "accept" /\ UNCHANGED <<ret, cause>>
       ELSE Return(0, "shutdown_wait")
    /\ UNCHANGED <<running, server_socket, client_connection, capture, cfgOK,
                   FRAME_RATE, attempt, connection_failures,
                   last_capture_time, frame, jpeg_len, sockFile, leaked>>
    /\ UNCHANGED <<envVars, wire, sentLens, acceptLog, failRun, releaseLog,
                   hdrVars, obsVars>>

\* A count that stops at 2, "two or more".
UpTo2(n) == IF n < 2 THEN n + 1 ELSE 2

\* wait_for_client, lines 111-120: one accept() with its timeout of 1 s.
\* A signal that arrives during the call leaves it running to its end.
accept ==
    /\ pc = "accept"
    /\ \/ /\ pending > 0                      \* a client: return True
          /\ client_connection' = "conn"
          /\ pending' = pending - 1
          /\ peerAlive' = TRUE
          /\ wire' = <<>> /\ sentLens' = <<>> /\ acceptLog' = <<>>
          /\ unsent' = FALSE
          /\ pc' = "capture_and_send_loop"
          /\ UNCHANGED <<ret, cause, lateTimeouts>>
       \/ /\ pending = 0                      \* socket.timeout: continue
          /\ pc' = "wait_for_client"
          /\ lateTimeouts' = IF running THEN lateTimeouts
                                        ELSE UpTo2(lateTimeouts)
          /\ UNCHANGED <<ret, cause, client_connection, pending, peerAlive,
                         wire, sentLens, acceptLog, unsent>>
       \/ /\ Return(0, "accept_error")        \* accept() raises: return False
          /\ UNCHANGED <<client_connection, pending, peerAlive, wire,
                         sentLens, acceptLog, lateTimeouts, unsent>>
    /\ UNCHANGED <<running, server_socket, capture, cfgOK, FRAME_RATE,
                   attempt, connection_failures, last_capture_time, frame,
                   jpeg_len, sockFile, leaked, src, failRun, releaseLog,
                   hdrVars>>

\* ------------------------------------------------ capture_and_send_loop
\* Lines 183-187.  1.0 / FRAME_RATE raises ZeroDivisionError for a rate of
\* 0, outside any try of the loop: main's "except Exception" returns 1.
\* frame_count only numbers the progress log lines and is left out.
loop_enter ==
    /\ pc = "capture_and_send_loop"
    /\ IF FRAME_RATE = 0
       THEN /\ Return(1, "error")
            /\ UNCHANGED <<last_capture_time, connection_failures>>
       ELSE /\ last_capture_time' = 0
            /\ connection_failures' = 0
            /\ pc' = "loop"
            /\ UNCHANGED <<ret, cause>>
    /\ UNCHANGED <<running, server_socket, client_connection, capture, cfgOK,
                   FRAME_RATE, attempt, frame, jpeg_len, sockFile, leaked>>
    /\ UNCHANGED <<envVars, wire, sentLens, acceptLog, failRun, releaseLog,
                   hdrVars, obsVars>>

\* Mutant: line 189 as "while True".
LoopGoesOnAlways(run) == TRUE

\* Line 189: the capture loop goes on while running.
LoopGoesOn(run) == run

\* Lines 189-191: while running, and the test of capture.
loop_head ==
    /\ pc = "loop"
    /\ IF ~LoopGoesOn(running)
       THEN /\ pc' = "after_loop"
            /\ cause' = "shutdown_loop"
            /\ UNCHANGED attempt
       ELSE IF capture = "None"
       THEN /\ pc' = "create_rtsp_connection"
            /\ attempt' = 0
            /\ UNCHANGED cause
       ELSE /\ pc' = "read"
            /\ UNCHANGED <<attempt, cause>>
    /\ UNCHANGED <<running, server_socket, client_connection, capture, cfgOK,
                   FRAME_RATE, connection_failures, last_capture_time, frame,
                   jpeg_len, ret, sockFile, leaked>>
    /\ UNCHANGED <<envVars, wire, sentLens, acceptLog, failRun, releaseLog,
                   hdrVars, obsVars>>

\* Mutant: line 196 as break.
AfterNoConnectionBreak == "after_loop"

\* Where the loop goes when create_rtsp_connection returned None: line 196,
\* continue, back to the test of running.
AfterNoConnection == "loop"

\* Mutant: range(max_retries + 1).
HasNextAttemptOneMore(a) == a < max_retries

\* Lines 132 and 155: after attempt a (from 0) another follows, with the
\* delay of line 157 before it, unless a was the last of range(max_retries).
HasNextAttempt(a) == a < max_retries - 1

\* One attempt of create_rtsp_connection, lines 133-153, with what follows
\* the last one: return None, and lines 193-196 of the loop.
\*   "ok"      the handle opened and the probe read returned a frame
\*   "closed"  isOpened() is False, or VideoCapture() itself raised
\*   "noframe" the handle opened, the probe read failed: cap.release()
\*   "raise"   the handle opened and a later call raised: the except
\*             clause does not release it
create_rtsp_connection ==
    /\ pc = "create_rtsp_connection"
    /\ \E how \in {"ok", "closed", "noframe", "raise"} :
        /\ how = "ok" <=> src # "down"
        /\ IF how = "ok"
           THEN /\ capture' = "cap"
                /\ connection_failures' = 0            \* line 197
                /\ failRun' = 0
                /\ attempt' = 0          \* the local ends with the call
                /\ pc' = "read"
                /\ UNCHANGED <<leaked, releaseLog, last_capture_time,
                               acceptLog>>
           ELSE /\ leaked' = (leaked \/ how = "raise")
                /\ releaseLog' = IF how = "noframe"
                                 THEN Logged(releaseLog, "capture")
                                 ELSE releaseLog
                /\ IF HasNextAttempt(attempt)
                   THEN /\ pc' = "retry_sleep"
                        /\ UNCHANGED <<last_capture_time, acceptLog>>
                   ELSE /\ pc' = AfterNoConnection
                        /\ Pass(ConnectFailDelay)
                /\ UNCHANGED <<capture, connection_failures, failRun,
                               attempt>>
    /\ UNCHANGED <<running, server_socket, client_connection, cfgOK,
                   FRAME_RATE, frame, jpeg_len, ret, sockFile>>
    /\ UNCHANGED <<envVars, wire, sentLens, cause, hdrVars, obsVars>>

\* Lines 155-157: the delay between two attempts.
retry_sleep ==
    /\ pc = "retry_sleep"
    /\ attempt' = attempt + 1
    /\ Pass(RetryDelay)
    /\ pc' = "create_rtsp_connection"
    /\ UNCHANGED <<running, server_socket, client_connection, capture, cfgOK,
                   FRAME_RATE, connection_failures, frame, jpeg_len, ret,
                   sockFile, leaked>>
    /\ UNCHANGED <<envVars, wire, sentLens, failRun, releaseLog, cause,
                   hdrVars, obsVars>>

\* Mutant: line 216 missing, the count is never reset.
AfterReadNoReset(failures, ok) == IF ok THEN failures ELSE failures + 1

\* connection_failures after a read: line 202 after a failed one, line 216
\* after a successful one.
AfterRead(failures, ok) == IF ok THEN 0 ELSE failures + 1

\* Lines 200-224: capture.read(), the failure count, the rate check.
\*   "fail"   ret is False or the frame is None
\*   "raise"  capture.read() raised: the except clause of lines 243-245
\*   "frame"  a frame was read
\* A frame that would pass the rate check is read only while fewer than
\* MaxFrames frames were handed to send_frame_data, and one more once
\* running is cleared: the frame in hand when the loop comes to its test.
read_frame ==
    /\ pc = "read"
    /\ \E how \in {"fail", "raise", "frame"} :
        /\ how = "frame" <=> src # "down"
        /\ CASE how = "fail" ->
                /\ connection_failures' = AfterRead(connection_failures, FALSE)
                /\ failRun' = failRun + 1
                /\ IF connection_failures' >= max_connection_failures
                   THEN /\ capture' = "None"
                        /\ releaseLog' = Logged(releaseLog, "capture")
                        /\ Pass(RecreateDelay)
                   ELSE /\ Pass(ErrorDelay)
                        /\ UNCHANGED <<capture, releaseLog>>
                /\ pc' = "loop"
                /\ UNCHANGED <<frame, unsent>>
             [] how = "raise" ->
                /\ Pass(ErrorDelay)
                /\ pc' = "loop"
                /\ UNCHANGED <<connection_failures, failRun, capture,
                               releaseLog, frame, unsent>>
             [] how = "frame" ->
                /\ connection_failures' = AfterRead(connection_failures, TRUE)
                /\ failRun' = 0
                /\ unsent' = TRUE
                /\ IF TooSoon(Now - last_capture_time, FRAME_RATE)
                   THEN /\ pc' = "loop"                       \* dropped
                        /\ UNCHANGED <<last_capture_time, acceptLog, frame>>
                   ELSE /\ Len(sentLens) <
                             (IF running THEN MaxFrames ELSE MaxFrames + 1)
                        /\ last_capture_time' = Now
                        /\ acceptLog' = Append(acceptLog, Now)
                        /\ frame' = IF src = "up" THEN "ok" ELSE "corrupt"
                        /\ pc' = "encode"
                /\ UNCHANGED <<capture, releaseLog>>
    /\ UNCHANGED <<running, server_socket, client_connection, cfgOK,
                   FRAME_RATE, attempt, jpeg_len, ret, sockFile, leaked>>
    /\ UNCHANGED <<envVars, wire, sentLens, cause, hdrVars, lateTimeouts>>

\* Mutant: an encode failure counts as a failed read.
AfterEncodeFailureCounted(failures) == failures + 1

\* connection_failures after imencode failed: lines 230-232 and 243-245
\* leave it as it is.
AfterEncodeFailure(failures) == failures

\* Lines 226-232: cv2.imencode of the accepted frame.  A frame of a working
\* camera encodes, to some number of bytes; a corrupt one makes imencode
\* return False (line 230) or raise (lines 243-245).
encode_frame ==
    /\ pc = "encode"
    /\ \/ /\ frame = "ok"
          /\ \E n \in PayloadLens : jpeg_len' = n
          /\ pc' = "send"
          /\ UNCHANGED <<last_capture_time, acceptLog, connection_failures>>
       \/ /\ frame = "corrupt"
          /\ pc' = "loop"
          /\ connection_failures' = AfterEncodeFailure(connection_failures)
          /\ UNCHANGED <<jpeg_len, last_capture_time, acceptLog>>
       \/ /\ frame = "corrupt"
          /\ Pass(ErrorDelay)
          /\ pc' = "loop"
          /\ connection_failures' = AfterEncodeFailure(connection_failures)
          /\ UNCHANGED jpeg_len
    /\ frame' = "none"
    /\ UNCHANGED <<running, server_socket, client_connection, capture, cfgOK,
                   FRAME_RATE, attempt, ret, sockFile, leaked>>
    /\ UNCHANGED <<envVars, wire, sentLens, failRun, releaseLog, cause,
                   hdrVars, obsVars>>

\* Mutant: the second sendall is made even when the first stopped short.
WrittenBoth(hdr, data, h, p) == SubSeq(hdr, 1, h) \o SubSeq(data, 1, p)

\* What the two sendall calls of send_frame_data put on the socket when the
\* first writes h bytes of the header and the second p bytes of the data: a
\* sendall that stops short raises, and the second call is then never made.
Written(hdr, data, h, p) ==
    IF h < Len(hdr) THEN SubSeq(hdr, 1, h)
                    ELSE hdr \o SubSeq(data, 1, p)

\* Mutant: after a frame was sent the loop sends the frame in hand again.
AfterSendOKResend == "send"

\* Where the loop goes after send_frame_data returned True: lines 239-241,
\* then the head of the loop and the next read.
AfterSendOK == "loop"

\* send_frame_data, lines 161-177, and the loop's test of it, 235-237.
\* A client that reads its socket takes both writes whole; towards one that
\* stopped, each write may still complete or stop short.
send_frame_data ==
    /\ pc = "send"
    /\ sentLens' = Append(sentLens, jpeg_len)
    /\ unsent' = FALSE
    /\ LET hdr  == PackLE32(jpeg_len \div 256, jpeg_len % 256)
           data == Payload(jpeg_len)
       IN  \E h \in 0..Len(hdr), p \in 0..Len(data) :
            /\ peerAlive => h = Len(hdr) /\ p = Len(data)
            /\ wire' = wire \o Written(hdr, data, h, p)
            /\ IF h = Len(hdr) /\ p = Len(data)
               THEN pc' = AfterSendOK /\ UNCHANGED cause
               ELSE pc' = "after_loop" /\ cause' = "send_failed"   \* break
    /\ UNCHANGED <<running, server_socket, client_connection, capture, cfgOK,
                   FRAME_RATE, attempt, connection_failures,
                   last_capture_time, frame, jpeg_len, ret, sockFile, leaked>>
    /\ UNCHANGED <<envVars, acceptLog, failRun, releaseLog, hdrVars,
                   lateTimeouts>>

\* Mutant: lines 248-250 missing.
CaptureAfterLoopKept(c) == c

\* The global capture when capture_and_send_loop returns: lines 248-250
\* release a handle that is open and store None.
CaptureAfterLoop(c) == "None"

\* Mutant: main goes round its loop with the session left open (lines
\* 281-286 skipped).
loop_exit_session_kept ==
    /\ pc = "after_loop"
    /\ capture' = "None"
    /\ releaseLog' = IF capture' # capture THEN Logged(releaseLog, "capture")
                                           ELSE releaseLog
    /\ pc' = "main_loop"
    /\ UNCHANGED <<running, server_socket, client_connection, cfgOK,
                   FRAME_RATE, attempt, connection_failures,
                   last_capture_time, frame, jpeg_len, ret, sockFile, leaked>>
    /\ UNCHANGED <<envVars, wire, sentLens, acceptLog, failRun, cause,
                   hdrVars, obsVars>>

\* Lines 247-250, the end of capture_and_send_loop, and main's line 281.
\* main assigns client_connection (line 286) and declares only running
\* global, so the name is local to main and not yet bound when line 281
\* reads it: UnboundLocalError, caught by "except Exception" (lines
\* 297-299), and main returns 1.  Lines 282-289 are never reached.
loop_exit ==
    /\ pc = "after_loop"
    /\ capture' = CaptureAfterLoop(capture)
    /\ releaseLog' = IF capture' # capture THEN Logged(releaseLog, "capture")
                                           ELSE releaseLog
    /\ ret' = 1
    /\ pc' = "finally"
    /\ UNCHANGED <<running, server_socket, client_connection, cfgOK,
                   FRAME_RATE, attempt, connection_failures,
                   last_capture_time, frame, jpeg_len, sockFile, leaked>>
    /\ UNCHANGED <<envVars, wire, sentLens, acceptLog, failRun, cause,
                   hdrVars, obsVars>>

\* Mutant: cleanup in the order listener, client, source.
CleanupListenerFirst == <<"server", "file", "client", "capture">>

\* The order of the four steps of cleanup, lines 43-66.
CleanupOrder == <<"capture", "client", "server", "file">>

RECURSIVE LogAll(_, _, _)
\* log with the releases of order[i..] that are in held, in that order.
LogAll(log, order, held) ==
    IF order = <<>> THEN log
    ELSE LogAll(IF order[1] \in held THEN Logged(log, order[1]) ELSE log,
                Tail(order), held)

\* main's finally clause, lines 300-301: cleanup, lines 39-66, and the
\* process exits with main's return value.  os.unlink of the socket file may
\* raise OSError, which cleanup only logs.
cleanup ==
    /\ pc = "finally"
    /\ \E unlinked \in BOOLEAN :
        /\ unlinked => sockFile # "absent"
        /\ sockFile' = IF unlinked THEN "absent" ELSE sockFile
        /\ releaseLog' =
             LogAll(releaseLog, CleanupOrder,
                    {w \in {"capture"} : capture # "None"}
                      \cup {w \in {"client"} : client_connection # "None"}
                      \cup {w \in {"server"} : server_socket # "None"}
                      \cup {w \in {"file"} : unlinked})
    /\ capture' = "None"
    /\ client_connection' = "None"
    /\ server_socket' = "None"
    /\ pc' = "exited"
    /\ UNCHANGED <<running, cfgOK, FRAME_RATE, attempt, connection_failures,
                   last_capture_time, frame, jpeg_len, ret, leaked>>
    /\ UNCHANGED <<envVars, wire, sentLens, acceptLog, failRun, cause,
                   hdrVars, obsVars>>

\* signal_handler, lines 33-37, installed for SIGINT and SIGTERM before
\* main's try: it runs between any two steps of the daemon.
signal_handler ==
    /\ pc # "exited"
    /\ running' = FALSE
    /\ UNCHANGED <<pc, server_socket, client_connection, capture, cfgOK,
                   FRAME_RATE, attempt, connection_failures,
                   last_capture_time, frame, jpeg_len, ret, sockFile, leaked>>
    /\ UNCHANGED <<envVars, histVars, hdrVars>>

\* ------------------------------------------------------ the environment
\* The daemon sees the environment only through the calls that ask it:
\* time.time() (line 219), accept (line 112), sendall (lines 166, 169),
\* VideoCapture and read (lines 134-142, 200).  What the environment did
\* since the last such call shows only in what the next one returns, so each
\* change below is taken when the daemon is about to make that call.

\* One tick of the clock.
Tick ==
    /\ pc = "read"
    /\ last_capture_time' = Aged(last_capture_time, 1)
    /\ acceptLog' = AgedLog(acceptLog, 1)
    /\ UNCHANGED <<pc, running, server_socket, client_connection, capture,
                   cfgOK, FRAME_RATE, attempt, connection_failures, frame,
                   jpeg_len, ret, sockFile, leaked>>
    /\ UNCHANGED <<envVars, wire, sentLens, failRun, releaseLog, cause,
                   hdrVars, obsVars>>

\* A client connects to the listening socket and waits in its backlog.  The
\* daemon looks at the backlog in accept only; a client that connects during
\* a session is taken to arrive when the capture loop has ended, the session
\* still open.
client_connects ==
    /\ server_socket = "listening"
    /\ pc \in {"accept", "after_loop"}
    /\ pending < Backlog
    /\ pending' = pending + 1
    /\ UNCHANGED <<progVars, src, peerAlive, histVars, hdrVars>>

\* The accepted client closes its end or stops reading.
client_stops ==
    /\ pc = "send"
    /\ peerAlive
    /\ peerAlive' = FALSE
    /\ UNCHANGED <<progVars, src, pending, histVars, hdrVars>>

\* The camera goes down, comes back, or starts delivering corrupt frames.
camera_changes ==
    /\ pc \in {"create_rtsp_connection", "read"}
    /\ \E s \in {"down", "bad", "up"} \ {src} : src' = s
    /\ UNCHANGED <<progVars, pending, peerAlive, histVars, hdrVars>>

\* ------------------------------------------------------ specifications
\* A step of the daemon's own control flow.
Daemon ==
    \/ validate_configuration
    \/ create_server_socket
    \/ main_loop
    \/ wait_for_client
    \/ accept
    \/ loop_enter
    \/ loop_head
    \/ create_rtsp_connection
    \/ retry_sleep
    \/ read_frame
    \/ encode_frame
    \/ send_frame_data
    \/ loop_exit
    \/ cleanup

Next ==
    \/ Daemon
    \/ signal_handler
    \/ Tick
    \/ client_connects
    \/ client_stops
    \/ camera_changes

Spec == Init /\ [][Next]_vars

\* The daemon runs on: each of its blocking calls returns.  Time passes:
\* Tick is taken at the reads only, so its fairness is the strong one.
LiveSpec == Spec /\ WF_vars(Daemon) /\ SF_vars(Tick)

\* ------------------------------------------- the header, on its own
\* Lengths L = 256 * q + r over the whole range of '<I', 0 .. 2^32 - 1.
HeaderQs == {0, 1, 2, 255, 256, 257, 4660, 65535, 65536, 65537, 11259375,
             16777214, 16777215}
HeaderRs == {0, 1, 127, 128, 255}

HeaderInit ==
    /\ DaemonInit
    /\ cfgOK /\ FRAME_RATE = 1 /\ sockFile = "absent" /\ src = "up"
    /\ hdrQ \in HeaderQs /\ hdrR \in HeaderRs /\ hdrBytes = <<>>

\* line 165: size_bytes = struct.pack('<I', len(frame_data))
pack_header ==
    /\ hdrBytes = <<>>
    /\ hdrBytes' = PackLE32(hdrQ, hdrR)
    /\ UNCHANGED <<progVars, envVars, histVars, hdrQ, hdrR>>

HeaderSpec == HeaderInit /\ [][pack_header]_vars

\* =============================================================== claims
ShutdownCauses == {"shutdown_main", "shutdown_wait", "shutdown_loop"}

\* C1: after send_frame_data failed while streaming, and as long as no
\* shutdown was requested, the daemon goes on serving: main has not left its
\* server loop, so the process is neither in its finally clause nor exited,
\* and it returns to the accept wait.
C1_SendFailureKeepsServing ==
    (cause = "send_failed" /\ running) => pc \notin {"finally", "exited"}

\* C2: whenever the process exits because a test of running found the flag
\* cleared by signal_handler (in main's loop, in the accept wait, or in the
\* capture loop, streaming or reconnecting), main returned 0.
C2_ShutdownExitsZero ==
    (pc = "exited" /\ cause \in ShutdownCauses) => ret = 0

\* C3: main returns 1 only when validate_configuration or
\* create_server_socket failed; no read, reconnect, encode or send failure
\* of the relay loop ends the process.  Stated for the runs the claim lists:
\* a rate the loop runs with, and no shutdown requested.
C3_ExitOneOnlyConfigOrBind ==
    (pc = "exited" /\ ret = 1 /\ FRAME_RATE # 0 /\ running)
        => cause \in {"config", "bind"}

\* s is sorted by rank: no entry is followed, anywhere, by one of lower rank.
InOrder(s, rank) ==
    \A i, j \in 1..Len(s) : i < j => rank[s[i]] <= rank[s[j]]

\* The order C4 states: the listening socket and its file, the client
\* session, the source handle.
ListenerFirst ==
    ("server" :> 1) @@ ("file" :> 2) @@ ("client" :> 3) @@ ("capture" :> 4)

\* The reverse: the source handle, the client session, the listening socket,
\* its file.
SourceFirst ==
    ("capture" :> 1) @@ ("client" :> 2) @@ ("server" :> 3) @@ ("file" :> 4)

\* C4, as stated: on shutdown from any state the resources are released
\* listening socket and socket file first, then the client session, then the
\* source handle.
C4_ListenerClientSource ==
    (pc = "exited" /\ cause \in ShutdownCauses)
        => InOrder(releaseLog, ListenerFirst)

\* C4, amended: on shutdown from any state the resources are released in
\* this order: any open source handle, then any open client session, then
\* the listening socket, then its socket file.
C4_SourceClientListener ==
    (pc = "exited" /\ cause \in ShutdownCauses)
        => InOrder(releaseLog, SourceFirst)

\* C4's case: a shutdown seen by the capture loop while a source handle and
\* a client session were open; all four resources were released.
C4_Witness ==
    /\ pc = "exited"
    /\ cause = "shutdown_loop"
    /\ releaseLog = <<"capture", "client", "server", "file">>

\* C5: on every path by which main returns, at process exit every source
\* handle that was opened has been released, the client connection and the
\* listening socket are closed, and the socket file no longer exists.
C5_AllReleasedAtExit ==
    pc = "exited" =>
        /\ capture = "None" /\ ~leaked
        /\ client_connection = "None"
        /\ server_socket = "None"
        /\ sockFile = "absent"

\* C6: in a streaming session with rate r > 0, the frames that pass the rate
\* check have acceptance times at least 1/r apart (TicksPerSec / r ticks),
\* and the frame being encoded or sent is the one accepted now: a frame read
\* too soon is not the one that goes on.
C6_AcceptedFramesSpaced ==
    FRAME_RATE > 0 =>
        /\ \A i, j \in 1..Len(acceptLog) :
              i < j => (acceptLog[j] - acceptLog[i]) * FRAME_RATE >= TicksPerSec
        /\ pc \in {"encode", "send"} =>
              /\ acceptLog # <<>>
              /\ acceptLog[Len(acceptLog)] = Now

\* C6's case: at rate 1 two frames passed the rate check inside the window
\* and both went to the client.
C6_Witness ==
    /\ FRAME_RATE = 1
    /\ Len(acceptLog) = 2
    /\ Len(sentLens) = 2
    /\ pc = "loop"

\* A complete frame of the wire format: the payload length n in 4 bytes,
\* least significant first, then the n payload bytes.
WireFrame(n) ==
    <<n % 256, (n \div 256) % 256, (n \div 65536) % 256,
      (n \div 16777216) % 256>> \o Payload(n)

RECURSIVE Stream(_)
\* The bytes of complete frames with payloads of the lengths lens.
Stream(lens) ==
    IF lens = <<>> THEN <<>>
    ELSE WireFrame(lens[1]) \o Stream(Tail(lens))

\* s is the beginning of t.
IsPrefix(s, t) == Len(s) <= Len(t) /\ s = SubSeq(t, 1, Len(s))

\* C7: the bytes written to a session are complete frames, each the 4-byte
\* little-endian length of its payload and then the payload, with at most
\* the last frame incomplete; and once a frame is incomplete (a write of
\* send_frame_data failed) nothing more is written to the session.
C7_WireIsFrames ==
    /\ [](/\ Len(Stream(Front(sentLens))) <= Len(wire)
          /\ IsPrefix(Stream(Front(sentLens)), wire)
          /\ IsPrefix(wire, Stream(sentLens)))
    /\ [][wire # Stream(sentLens) => wire' = wire /\ sentLens' = sentLens]_vars

\* C7's case: one complete frame, then a frame cut inside its payload.
C7_Witness ==
    /\ Len(sentLens) = 2
    /\ sentLens[2] = 2
    /\ Len(wire) = Len(Stream(sentLens)) - 1
    /\ cause = "send_failed"

\* The length a 4-byte little-endian header stands for, as the pair
\* <<L div 256, L mod 256>>.
UnpackLE32(b) == <<b[2] + 256 * b[3] + 65536 * b[4], b[1]>>

\* C8: for every payload length L in 0 .. 2^32 - 1 the header of
\* send_frame_data is 4 bytes that decode, little-endian, back to L.
C8_HeaderRoundTrip ==
    hdrBytes # <<>> =>
        /\ Len(hdrBytes) = 4
        /\ \A i \in 1..4 : hdrBytes[i] \in 0..255
        /\ UnpackLE32(hdrBytes) = <<hdrQ, hdrR>>

\* C8's case: a length whose four bytes all differ, 0xABCDEF80, was packed.
C8_Witness ==
    /\ hdrQ = 11259375 /\ hdrR = 128
    /\ hdrBytes = <<128, 239, 205, 171>>

\* C9: while streaming, the source handle is released by the read loop
\* exactly when the failed reads in a row on it reach 5: the step of the 5th
\* releases it and goes back to the head of the loop, which reconnects, and
\* no earlier read step releases it.  failRun counts the reads that returned
\* no frame since the handle was opened or last delivered a frame.
C9_ReleasedAtFifthFailure ==
    /\ [][pc = "read" =>
            /\ capture' = "None" <=> failRun' = 5
            /\ capture' = "None" => pc' = "loop"]_vars
    /\ [][pc = "loop" /\ capture = "None" /\ running /\ pc' # pc =>
            pc' = "create_rtsp_connection"]_vars

\* C9's case: the 5th failed read in a row has released the handle; no
\* shutdown was requested and no send failed.
C9_Witness ==
    /\ pc = "loop"
    /\ capture = "None"
    /\ failRun = 5
    /\ running
    /\ cause = "none"

\* The capture loop holds no source handle: it is about to connect, or
\* between two attempts.
Reconnecting ==
    /\ pc \in {"loop", "create_rtsp_connection", "retry_sleep"}
    /\ capture = "None"

\* C10: once the daemon is reconnecting it keeps retrying for as long as no
\* shutdown is requested: a failed attempt leaves it in the loop, and
\* whenever it is not in an attempt a next attempt follows.  And if the
\* camera comes back and stays up while the client stays connected, a
\* further frame is sent, whole, to that client.
C10_ReconnectsAndResumes ==
    /\ [][pc = "create_rtsp_connection" /\ capture' = "None" =>
            pc' \in {"create_rtsp_connection", "retry_sleep", "loop"}]_vars
    /\ [](Reconnecting => <>(pc = "create_rtsp_connection" \/ ~running))
    /\ \A n \in 0..(MaxFrames - 1) :
          <>[](src = "up") =>
              [](Reconnecting /\ Len(sentLens) = n =>
                    <>(\/ Len(sentLens) > n /\ wire = Stream(sentLens)
                       \/ ~running
                       \/ ~peerAlive))

\* C10's case: a frame was sent, then 5 failed reads released the handle,
\* and the daemon is in a connection attempt with the camera back up, the
\* client connected and no shutdown requested.
C10_Witness ==
    /\ pc = "create_rtsp_connection"
    /\ failRun = 5
    /\ capture = "None"
    /\ Len(sentLens) = 1
    /\ src = "up"
    /\ running /\ peerAlive

\* The daemon is in the accept wait of wait_for_client.
AwaitingClient == pc \in {"wait_for_client", "accept"}

\* C11: while no client connects the daemon stays in the accept wait, each
\* accept ending in its timeout (an accept that raises another error ends
\* the wait, lines 118-120), and never enters the capture loop.  Once a
\* shutdown is requested at most one more accept times out, the wait is left
\* and the process exits.
C11_WaitsUntilShutdown ==
    /\ [][pc = "accept" /\ pending = 0 /\ cause' # "accept_error"
            => pc' \in {"accept", "wait_for_client"}]_vars
    /\ [][pc = "wait_for_client" /\ running => AwaitingClient']_vars
    /\ [](lateTimeouts <= 1)
    /\ [](AwaitingClient /\ ~running => <>(pc = "exited"))

\* C11's case: no client was accepted, the shutdown request arrived during
\* an accept, which timed out, and the process has exited.
C11_Witness ==
    /\ pc = "exited"
    /\ cause = "shutdown_wait"
    /\ lateTimeouts = 1
    /\ pending = 0

\* C12: at most one client session is open at any time.  The daemon is never
\* in the accept wait while an accepted client connection is still open, and
\* every step that takes a client from the backlog starts from no open
\* connection: a second client stays in the backlog.
C12_OneSessionAtATime ==
    /\ [](AwaitingClient => client_connection = "None")
    /\ [][pending' < pending =>
            client_connection = "None" /\ client_connection' = "conn"]_vars

\* C12's case: a frame was sent in a session that is still open, and a
\* second client has connected and waits, unaccepted.
C12_Witness ==
    /\ client_connection = "conn"
    /\ pending = 1
    /\ pc = "finally"
    /\ Len(sentLens) = 1

\* C13: after a shutdown request, in whatever state it arrives (main, the
\* accept wait, streaming, reconnecting, inside the attempts of a connect),
\* the process eventually exits, every blocking call returning.
C13_ShutdownTerminates ==
    [](~running => <>(pc = "exited"))

\* C13's case: the request arrived while the daemon was reconnecting after
\* 5 failed reads, and the process has exited.
C13_Witness ==
    /\ pc = "exited"
    /\ ~running
    /\ cause = "shutdown_loop"
    /\ failRun = 5

\* The daemon is in capture_and_send_loop.
InCaptureLoop ==
    pc \in {"capture_and_send_loop", "loop", "create_rtsp_connection",
            "retry_sleep", "read", "encode", "send", "after_loop"}

\* C14: the rate the relay loop computes its pacing interval from lies in
\* [0.1, 30], a configured rate outside that range having been clamped into
\* it; in particular it is never 0 or negative.  FRAME_RATE is an integer,
\* so the range is 1 .. 30.
C14_RateClamped ==
    InCaptureLoop => FRAME_RATE >= 1 /\ FRAME_RATE <= 30

\* C15: one call of create_rtsp_connection makes at most 3 attempts, numbered
\* 0, 1, 2; the delay comes only between two attempts, never after the 3rd;
\* an attempt yields the handle only if the camera opened and the probe read
\* returned a frame, and the loop then goes on to read with it; a failed
\* attempt is followed by the delay and the next attempt, and the failed 3rd
\* by the return of no handle to the loop.
C15_ThreeAttemptsThenNone ==
    /\ [](pc \in {"create_rtsp_connection", "retry_sleep"} =>
              attempt \in 0..2)
    /\ [](pc = "retry_sleep" => attempt < 2)
    /\ [][pc = "create_rtsp_connection" /\ capture' # "None" =>
            src # "down" /\ pc' = "read"]_vars
    /\ [][pc = "create_rtsp_connection" /\ pc' # pc /\ capture' = "None" =>
            IF attempt < 2 THEN pc' = "retry_sleep" /\ attempt' = attempt
                           ELSE pc' = "loop"]_vars
    /\ [][pc = "retry_sleep" /\ pc' # pc =>
            pc' = "create_rtsp_connection" /\ attempt' = attempt + 1]_vars

\* C15's case: all 3 attempts of a call failed and it returned no handle.
C15_Witness ==
    /\ pc = "loop"
    /\ attempt = 2
    /\ capture = "None"
    /\ failRun = 0
    /\ running

\* C16: when imencode fails on an accepted frame the frame is dropped:
\* nothing is handed to send_frame_data or written, the frame is not kept
\* for another try, the client session and the source handle stay open, the
\* count of failed reads is left as it was, and the loop goes on to its head
\* and from there, if no shutdown was requested, to the next read.
C16_EncodeFailureDropsFrame ==
    /\ [][pc = "encode" /\ pc' = "loop" =>
            /\ sentLens' = sentLens /\ wire' = wire
            /\ frame' = "none"
            /\ capture # "None" /\ capture' = capture
            /\ client_connection = "conn" /\ client_connection' = "conn"
            /\ connection_failures' = connection_failures
            /\ failRun' = failRun]_vars
    /\ [][pc = "encode" => pc' \in {"encode", "send", "loop"}]_vars
    /\ [][pc = "loop" /\ running /\ capture # "None" /\ pc' # pc =>
            pc' = "read"]_vars

\* C16's case: the first frame of a session passed the rate check just now,
\* its encoding failed, and the loop is back at its head with the handle
\* and the session open and nothing sent.
C16_Witness ==
    /\ pc = "loop"
    /\ acceptLog = <<Now>>
    /\ sentLens = <<>>
    /\ frame = "none"
    /\ capture = "cap"
    /\ client_connection = "conn"
    /\ connection_failures = 0

\* C17: create_server_socket binds only after an existing socket file was
\* removed: a step of it that leaves the old file in place has created no
\* socket.  And when it fails, at the removal or at socket, bind or listen,
\* main returns 1 having accepted no client and opened no source handle.
C17_BindFailureIsFatal ==
    /\ [][pc = "create_server_socket" /\ pc' # pc /\ sockFile' = "stale" =>
            server_socket' = "None" /\ pc' = "finally" /\ ret' = 1]_vars
    /\ [][pc = "create_server_socket" /\ pc' # pc
                /\ server_socket' # "listening" =>
            pc' = "finally" /\ ret' = 1]_vars
    /\ [](cause = "bind" =>
            /\ pc \in {"finally", "exited"}
            /\ ret = 1
            /\ client_connection = "None"
            /\ capture = "None" /\ ~leaked
            /\ sentLens = <<>> /\ acceptLog = <<>>
            /\ \A i \in 1..Len(releaseLog) :
                  releaseLog[i] \in {"server", "file"})

\* C17's case: the stale socket file could not be removed and the process
\* has exited with code 1.
C17_Witness ==
    /\ pc = "exited"
    /\ cause = "bind"
    /\ ret = 1
    /\ sockFile = "stale"
    /\ releaseLog = <<>>

\* C18: within a session the frames sent are a subsequence of the frames
\* read, in read order.  Every frame handed to send_frame_data is the frame
\* last read from the source and was not sent before, so it was read after
\* every frame sent earlier; and from the moment a frame passes the rate
\* check until it is sent or dropped it stays the last frame read and the
\* last frame accepted, so no frame accepted later is sent before it.
C18_SentInReadOrder ==
    /\ [][Len(sentLens') > Len(sentLens) =>
            pc = "send" /\ unsent /\ ~unsent']_vars
    /\ [](pc \in {"encode", "send"} =>
            /\ unsent
            /\ acceptLog # <<>>
            /\ acceptLog[Len(acceptLog)] = Now)

\* C18's case: two frames of a session were sent, whole, and a frame read
\* after them is in hand, not sent.
C18_Witness ==
    /\ Len(sentLens) = 2
    /\ wire = Stream(sentLens)
    /\ unsent
    /\ pc = "loop"
    /\ running

\* C19: at most one source handle is open at any time.  When an attempt of
\* create_rtsp_connection is about to open a handle, no handle is open:
\* neither the streaming one nor one that an earlier attempt opened and did
\* not release; and no unreleased handle exists beside the streaming one.
C19_OneHandleOpen ==
    /\ pc = "create_rtsp_connection" => capture = "None" /\ ~leaked
    /\ capture # "None" => ~leaked

\* C20: the source handle is held only while a client session is open.  An
\* open handle means an accepted client and the daemon inside
\* capture_and_send_loop; before a client was accepted no handle was ever
\* opened; and when capture_and_send_loop has ended, by a send failure or a
\* shutdown, the handle is released, so none is open in the accept wait.
C20_SourceOnlyDuringSession ==
    /\ [](capture # "None" => client_connection = "conn" /\ InCaptureLoop)
    /\ [](AwaitingClient =>
            /\ capture = "None" /\ ~leaked
            /\ \A i \in 1..Len(releaseLog) : releaseLog[i] # "capture")
    /\ [][pc = "after_loop" /\ pc' # pc =>
            /\ capture' = "None"
            /\ capture # "None" =>
                  releaseLog' # <<>>
                  /\ releaseLog'[Len(releaseLog')] = "capture"]_vars

\* C20's case: a send failed while streaming, capture_and_send_loop has
\* ended and released the source handle; the client connection is still
\* open.
C20_Witness ==
    /\ pc = "finally"
    /\ cause = "send_failed"
    /\ capture = "None"
    /\ client_connection = "conn"
    /\ releaseLog = <<"capture">>

\* C21: the daemon removes a socket file at exit only when it bound it in
\* this run.  When main returns because validate_configuration failed,
\* create_server_socket was never called, and a file already present at the
\* socket path is left as it was: cleanup has removed no file.
C21_UnboundFileLeftAlone ==
    cause = "config" =>
        \A i \in 1..Len(releaseLog) : releaseLog[i] # "file"

====
